---- MODULE Spec2Model ----
(***************************************************************************)
(* State-machine model of the limit order book engine                      *)
(* (src/src/order_book.py, class LimitOrderBook) driven by a client that   *)
(* calls process_order, snapshot and reset, and of the order generator     *)
(* (src/src/synthetic_data.py, class SyntheticOrderGenerator) driving it.  *)
(*                                                                         *)
(* Numbers.  Prices are integers in price units, PriceRes units per 1e-6,  *)
(* so that round(x, 6) is a real rounding step.  Volumes are integers in   *)
(* volume quanta; the deletion threshold 1e-12 lies strictly between 0 and *)
(* one quantum, so `<= 1e-12` on quantised volumes is `<= Eps` with        *)
(* Eps = 0.  Optional values (None / a value) are sequences of length 0/1. *)
(*                                                                         *)
(* Clients.  Spec is the driver of main.py submitting orders of volume > 0 *)
(* (the documented domain); SpecAny submits what the book accepts, zero    *)
(* and negative volumes included; SpecHeld keeps returned snapshots.       *)
(*                                                                         *)
(* Generator.  A random source is a state yielding raw values 0 ..         *)
(* RawRange - 1; a source seeded from entropy (seed None) can yield any.   *)
(* SpecGen is the closed loop of main.py with such a generator, SpecSeed   *)
(* seeds books of 1..MaxLevels levels, SpecRuns is the two seeded runs of  *)
(* test_reproducibility and SpecShared the same with other users of module *)
(* random.  SpecLoop and SpecDrift are the loop of main.py with narrower   *)
(* configurations, run for more orders.  SpecLedger is a client that keeps *)
(* a ledger of what it submits, SpecPermute two runs that submit the same  *)
(* LIMIT orders in different orders.  A volume of 1.0 drawn by the         *)
(* generator is VolUnit quanta.                                            *)
(*                                                                         *)
(* Objects.  ExecutionStats instances are mutable objects: heap maps an    *)
(* object id to the instance's fields, _stats is the book's reference and  *)
(* a snapshot holds a reference too.  Lists built by snapshot() are fresh  *)
(* and owned by the snapshot alone, floats and Orders are never mutated,   *)
(* so they are held by value.                                              *)
(***************************************************************************)
EXTENDS Integers, Sequences, FiniteSets, TLC

VARIABLES
    _bids,      \* self._bids : price -> volume
    _asks,      \* self._asks : price -> volume
    _time,      \* self._time
    _stats,     \* self._stats : reference to an ExecutionStats object
    heap,       \* the ExecutionStats objects alive, by object id
    held,       \* the BookSnapshot the client kept from an earlier call
    prev,       \* history: the book before the last process_order
    generator,  \* the SyntheticOrderGenerator constructed on the book, if any
    random,     \* the state of the process-wide source of module random
    pending,    \* the order the driver pulled from stream() and has not processed
    pulled,     \* history: how the pending order was generated
    tick,       \* the driver's count of orders pulled
    runs,       \* history: the books each run of the driver went through
    ledger      \* history: what was submitted to the book since the last reset

bookVars == <<_bids, _asks, _time, _stats, heap, held, prev>>
genVars == <<generator, random, pending, pulled, tick, runs, ledger>>
vars == <<bookVars, genVars>>

----------------------------------------------------------------------------
\* Bounds of the model

MaxPrice == 3       \* prices are 1..MaxPrice price units
MaxVolume == 2      \* order volumes are 1..MaxVolume quanta
MaxOrders == 4      \* process_order calls between two resets
MaxAnyOrders == 3   \* the same, for the client of SpecAny
MaxHeldOrders == 2  \* the same, for the client of SpecHeld
PriceRes == 2       \* price units per 1e-6
NumObjs == 3        \* object ids available for ExecutionStats instances

\* Program constants

Eps == 0            \* 1e-12, in volume quanta (rounded down)

Prices == 1..MaxPrice
\* timestamps are opaque labels echoed back in the snapshot: two suffice
Timestamps == {0, 1}
ObjIds == 1..NumObjs
Sides == {"BID", "ASK"}
OrderTypes == {"LIMIT", "MARKET", "CANCEL"}

None == <<>>
Some(x) == <<x>>

\* An Order; a MARKET order carries the default price 0.0.
Order(order_type, side, price, volume) ==
    [order_type |-> order_type, side |-> side, price |-> price, volume |-> volume]

\* The orders a client submits with prices drawn from Ps and volumes from Vols.
Orders(Ps, Vols) ==
    {Order(t, s, p, v) : t \in {"LIMIT", "CANCEL"}, s \in Sides, p \in Ps, v \in Vols}
    \cup {Order("MARKET", s, 0, v) : s \in Sides, v \in Vols}

\* The documented domain: volume > 0.
PositiveVolumes == 1..MaxVolume
\* What the book accepts: nothing is validated, so zero and negative too.
AnyVolumes == {0 - 1, 0} \cup PositiveVolumes
\* The client of SpecHeld trades one quantum at two prices.
HeldPrices == {1, 2}
HeldVolumes == {1}

\* ExecutionStats()
ExecutionStats ==
    [total_orders |-> 0, limit_orders |-> 0, market_orders |-> 0,
     cancel_orders |-> 0, total_volume_filled |-> 0, last_order |-> None]

----------------------------------------------------------------------------
\* dict and list helpers

EmptyDict == [p \in {} |-> 0]

\* book.get(price, 0.0)
Get(book, price) == IF price \in DOMAIN book THEN book[price] ELSE 0

\* book[price] = v
SetItem(book, price, v) ==
    [q \in DOMAIN book \cup {price} |-> IF q = price THEN v ELSE book[q]]

\* del book[price]
DelItem(book, price) == [q \in DOMAIN book \ {price} |-> book[q]]

max(S) == CHOOSE x \in S : \A y \in S : y <= x
min(S) == CHOOSE x \in S : \A y \in S : x <= y

\* sorted(keys, reverse=...)
RECURSIVE sorted(_, _)
sorted(keys, reverse) ==
    IF keys = {} THEN <<>>
    ELSE LET first == IF reverse THEN max(keys) ELSE min(keys)
         IN  <<first>> \o sorted(keys \ {first}, reverse)

\* round(n / d, 0) for d > 0: nearest integer, ties to even
RoundDiv(n, d) ==
    LET q == n \div d
        r == n % d
    IN  IF 2 * r < d THEN q
        ELSE IF 2 * r > d THEN q + 1
        ELSE IF q % 2 = 0 THEN q ELSE q + 1

\* round(n / d, 6) in price units: the nearest multiple of 1e-6
Round6(n, d) == PriceRes * RoundDiv(n, d * PriceRes)

----------------------------------------------------------------------------
\* properties of the book

\* mutant: the lowest bid instead of the highest
best_bid_lowest == IF DOMAIN _bids # {} THEN Some(min(DOMAIN _bids)) ELSE None

best_bid == IF DOMAIN _bids # {} THEN Some(max(DOMAIN _bids)) ELSE None

best_ask == IF DOMAIN _asks # {} THEN Some(min(DOMAIN _asks)) ELSE None

\* mutant: the mean cut off after the sixth decimal place
mid_price_truncated ==
    LET bb == best_bid
        ba == best_ask
    IN  IF bb # None /\ ba # None
        THEN Some(PriceRes * ((bb[1] + ba[1]) \div (2 * PriceRes)))
        ELSE None

mid_price ==
    LET bb == best_bid
        ba == best_ask
    IN  IF bb # None /\ ba # None THEN Some(Round6(bb[1] + ba[1], 2)) ELSE None

\* mutant: the difference taken the wrong way round
spread_reversed ==
    LET bb == best_bid
        ba == best_ask
    IN  IF bb # None /\ ba # None THEN Some(Round6(bb[1] - ba[1], 1)) ELSE None

spread ==
    LET bb == best_bid
        ba == best_ask
    IN  IF bb # None /\ ba # None THEN Some(Round6(ba[1] - bb[1], 1)) ELSE None

----------------------------------------------------------------------------
\* internal helpers; each returns the book side it was given, updated

\* mutant: the level is kept whatever its volume
NeverDrop(book, price, v) == SetItem(book, price, v)

\* mutant: the threshold test is strict, a level emptied exactly stays
DropIfBelow(book, price, v) ==
    IF v < Eps THEN DelItem(book, price) ELSE SetItem(book, price, v)

\* `if book[price] <= 1e-12: del book[price]` after book[price] was set to v
DropIfEmpty(book, price, v) ==
    IF v <= Eps THEN DelItem(book, price) ELSE SetItem(book, price, v)

\* mutant: book.setdefault(price, volume), a level keeps its first volume
_add_limit_setdefault(book, price, volume) ==
    IF price \in DOMAIN book THEN book ELSE SetItem(book, price, volume)

\* mutant: the order volume replaces the level instead of adding to it
_add_limit_overwrite(book, price, volume) == SetItem(book, price, volume)

_add_limit(book, price, volume) ==
    SetItem(book, price, Get(book, price) + volume)

\* mutant: the level is reduced and never deleted
_cancel_keeps_level(book, price, volume) ==
    IF price \in DOMAIN book
    THEN SetItem(book, price, book[price] - volume)
    ELSE book

\* mutant: the level is read with a default instead of being tested for
_cancel_unguarded(book, price, volume) ==
    SetItem(book, price, Get(book, price) - volume)

\* mutant: a CANCEL order removes the whole level it names
_cancel_whole_level(book, price, volume) ==
    IF price \in DOMAIN book THEN DelItem(book, price) ELSE book

_cancel(book, price, volume) ==
    IF price \in DOMAIN book
    THEN DropIfEmpty(book, price, book[price] - volume)
    ELSE book

\* mutant: the two directions swapped
sorterSwapped(side, book) ==
    IF side = "BID" THEN sorted(DOMAIN book, TRUE) ELSE sorted(DOMAIN book, FALSE)

\* the order in which _execute_market walks the opposite side
sorter(side, book) ==
    IF side = "BID" THEN sorted(DOMAIN book, FALSE) ELSE sorted(DOMAIN book, TRUE)

\* mutant: what remains of the order is filled whatever the level holds
FillRequested(available, remaining) == remaining

\* mutant: the whole level is taken whatever remains of the order
FillWholeLevel(available, remaining) == available

\* filled = min(available, remaining)
Fill(available, remaining) ==
    IF available <= remaining THEN available ELSE remaining

\* mutant: the loop without its `if remaining <= 0: break`
RECURSIVE MarketLoop_never_breaks(_, _, _, _)
MarketLoop_never_breaks(book, prices, remaining, filled_total) ==
    IF prices = <<>>
    THEN [book |-> book, filled_total |-> filled_total]
    ELSE LET price == Head(prices)
             available == book[price]
             filled == Fill(available, remaining)
         IN  MarketLoop_never_breaks(DropIfEmpty(book, price, available - filled),
                        Tail(prices), remaining - filled, filled_total + filled)

\* the for loop of _execute_market over the prices still to visit
RECURSIVE MarketLoop(_, _, _, _)
MarketLoop(book, prices, remaining, filled_total) ==
    IF prices = <<>> \/ remaining <= 0
    THEN [book |-> book, filled_total |-> filled_total]
    ELSE LET price == Head(prices)
             available == book[price]
             filled == Fill(available, remaining)
         IN  MarketLoop(DropIfEmpty(book, price, available - filled),
                        Tail(prices), remaining - filled, filled_total + filled)

\* mutant: the volume asked for is reported as filled
_execute_market_reports_requested(side, book, volume) ==
    [MarketLoop(book, sorter(side, book), volume, 0) EXCEPT !.filled_total = volume]

\* book is the side opposite to `side`
_execute_market(side, book, volume) ==
    MarketLoop(book, sorter(side, book), volume, 0)

----------------------------------------------------------------------------
\* snapshots

\* the live ExecutionStats instance
Stats == heap[_stats]

\* the objects a kept snapshot references
Refs(snap) == IF snap = None THEN {} ELSE {snap[1].stats}

FreshId(used) == min(ObjIds \ used)

\* mutant: stats=self._stats, the live object itself
SnapshotStatsAlias(live, new) == live

\* stats=ExecutionStats(total_orders=self._stats.total_orders, ...): the
\* reference the snapshot stores is that of the newly allocated copy `new`,
\* not the book's own reference `live`
SnapshotStatsRef(live, new) == new

\* snapshot(timestamp), with its stats stored under reference ref
\* mutant: a snapshot that lists the bids in ascending order
snapshot_bids_ascending(timestamp, ref) ==
    LET bid_prices == sorted(DOMAIN _bids, FALSE)
        ask_prices == sorted(DOMAIN _asks, FALSE)
    IN  [bid_prices |-> bid_prices,
         bid_volumes |-> [i \in DOMAIN bid_prices |-> _bids[bid_prices[i]]],
         ask_prices |-> ask_prices,
         ask_volumes |-> [i \in DOMAIN ask_prices |-> _asks[ask_prices[i]]],
         best_bid |-> best_bid,
         best_ask |-> best_ask,
         mid_price |-> mid_price,
         spread |-> spread,
         timestamp |-> timestamp,
         stats |-> ref]

snapshot(timestamp, ref) ==
    LET bid_prices == sorted(DOMAIN _bids, TRUE)
        ask_prices == sorted(DOMAIN _asks, FALSE)
    IN  [bid_prices |-> bid_prices,
         bid_volumes |-> [i \in DOMAIN bid_prices |-> _bids[bid_prices[i]]],
         ask_prices |-> ask_prices,
         ask_volumes |-> [i \in DOMAIN ask_prices |-> _asks[ask_prices[i]]],
         best_bid |-> best_bid,
         best_ask |-> best_ask,
         mid_price |-> mid_price,
         spread |-> spread,
         timestamp |-> timestamp,
         stats |-> ref]

\* The client receives the snapshot built from state (statsRef, h) and either
\* keeps it (replacing the one it held) or drops it; objects no longer
\* referenced are collected.
Return(timestamp, statsRef, h, keep) ==
    IF keep
    THEN \E new \in {FreshId(DOMAIN h)} :
         \E ref \in {SnapshotStatsRef(statsRef, new)} :
            LET h1 == (new :> h[statsRef]) @@ h
            IN  /\ held' = Some(snapshot(timestamp, ref)')
                /\ heap' = [i \in {statsRef, ref} |-> h1[i]]
    ELSE /\ held' = held
         /\ heap' = h

----------------------------------------------------------------------------
\* public API

\* mutant: a last_order that is set only by the first order
Counted_first_only(stats, order) ==
    [stats EXCEPT !.total_orders = @ + 1,
                  !.last_order = IF @ = None THEN Some(order) ELSE @]

\* the counting every process_order call starts with
Counted(stats, order) ==
    [stats EXCEPT !.total_orders = @ + 1, !.last_order = Some(order)]

process_order(order, timestamp, keep) ==
    /\ _time' = timestamp
    /\ _stats' = _stats
    /\ LET s1 == Counted(Stats, order)
           own == IF order.side = "BID" THEN _bids ELSE _asks
           opp == IF order.side = "BID" THEN _asks ELSE _bids
       IN  CASE order.order_type = "LIMIT" ->
                 LET book == _add_limit(own, order.price, order.volume)
                     s2 == [s1 EXCEPT !.limit_orders = @ + 1]
                 IN  /\ _bids' = IF order.side = "BID" THEN book ELSE _bids
                     /\ _asks' = IF order.side = "BID" THEN _asks ELSE book
                     /\ Return(timestamp, _stats, [heap EXCEPT ![_stats] = s2], keep)
             [] order.order_type = "MARKET" ->
                 LET res == _execute_market(order.side, opp, order.volume)
                     s2 == [s1 EXCEPT !.market_orders = @ + 1,
                                      !.total_volume_filled = @ + res.filled_total]
                 IN  /\ _bids' = IF order.side = "BID" THEN _bids ELSE res.book
                     /\ _asks' = IF order.side = "BID" THEN res.book ELSE _asks
                     /\ Return(timestamp, _stats, [heap EXCEPT ![_stats] = s2], keep)
             [] order.order_type = "CANCEL" ->
                 LET book == _cancel(own, order.price, order.volume)
                     s2 == [s1 EXCEPT !.cancel_orders = @ + 1]
                 IN  /\ _bids' = IF order.side = "BID" THEN book ELSE _bids
                     /\ _asks' = IF order.side = "BID" THEN _asks ELSE book
                     /\ Return(timestamp, _stats, [heap EXCEPT ![_stats] = s2], keep)

\* mutant: a snapshot that counts itself as an order
Snapshot_counted(timestamp, keep) ==
    /\ UNCHANGED <<_bids, _asks, _time, _stats>>
    /\ Return(timestamp, _stats, [heap EXCEPT ![_stats].total_orders = @ + 1], keep)

\* a client call of snapshot(timestamp)
Snapshot(timestamp, keep) ==
    /\ UNCHANGED <<_bids, _asks, _time, _stats>>
    /\ Return(timestamp, _stats, heap, keep)

\* mutant: a reset that clears the levels and keeps the statistics object
reset_keeps_stats ==
    /\ _bids' = EmptyDict
    /\ _asks' = EmptyDict
    /\ _time' = 0
    /\ UNCHANGED <<_stats, heap, held>>

reset ==
    /\ _bids' = EmptyDict
    /\ _asks' = EmptyDict
    /\ _time' = 0
    /\ LET new == FreshId(Refs(held))
           h1 == (new :> ExecutionStats) @@ heap
       IN  /\ _stats' = new
           /\ heap' = [i \in {new} \cup Refs(held) |-> h1[i]]
    /\ held' = held

----------------------------------------------------------------------------
\* The book and its clients

\* History: the last call that changed the book, the counters as they were
\* when it began and, for process_order, both sides as they were then.
Before(op) ==
    IF op = "process_order"
    THEN [op |-> op, bids |-> _bids, asks |-> _asks,
          stats |-> [Stats EXCEPT !.last_order = None]]
    ELSE [op |-> op, bids |-> EmptyDict, asks |-> EmptyDict,
          stats |-> [Stats EXCEPT !.last_order = None]]

\* History of a process_order call: Before, and the order it was given.
BeforeOrder(order) == [order |-> order] @@ Before("process_order")

\* The ledger of a book nothing was submitted to: the process_order calls
\* made, the volume the LIMIT orders brought, the volume the MARKET orders
\* asked for, and whether a CANCEL order named a level that existed.
NothingSubmitted ==
    [calls |-> 0, limit_volume |-> 0, market_volume |-> 0, cancel_hit |-> FALSE]

Init ==
    /\ _bids = EmptyDict
    /\ _asks = EmptyDict
    /\ _time = 0
    /\ _stats = 1
    /\ heap = (1 :> ExecutionStats)
    /\ held = None
    /\ prev = Before("init")
    /\ generator = None
    /\ random = None
    /\ pending = None
    /\ pulled = None
    /\ tick = 0
    /\ runs = <<>>
    /\ ledger = NothingSubmitted

\* The driver of main.py: every order is stamped with the tick counter and
\* the returned snapshot is rendered and dropped.
ProcessOrder ==
    \E order \in Orders(Prices, PositiveVolumes) :
        /\ Stats.total_orders < MaxOrders
        /\ process_order(order, Stats.total_orders + 1, FALSE)
        /\ prev' = BeforeOrder(order)
        /\ UNCHANGED genVars

TakeSnapshot ==
    \E timestamp \in Timestamps :
        /\ Snapshot(timestamp, FALSE)
        /\ UNCHANGED prev
        /\ UNCHANGED genVars

Reset ==
    /\ reset
    /\ prev' = Before("reset")
    /\ UNCHANGED genVars

Next == ProcessOrder \/ TakeSnapshot \/ Reset

Spec == Init /\ [][Next]_vars

\* A client that submits whatever the book accepts: zero and negative volumes.
ProcessAnyOrder ==
    \E order \in Orders(Prices, AnyVolumes) :
        /\ Stats.total_orders < MaxAnyOrders
        /\ process_order(order, Stats.total_orders + 1, FALSE)
        /\ prev' = BeforeOrder(order)
        /\ UNCHANGED genVars

NextAny == ProcessAnyOrder \/ TakeSnapshot \/ Reset

SpecAny == Init /\ [][NextAny]_vars

\* A client that may keep a returned snapshot while it goes on using the book;
\* it stamps its orders as the driver of main.py does.
KeepProcessOrder ==
    \E order \in Orders(HeldPrices, HeldVolumes), keep \in BOOLEAN,
       timestamp \in {Stats.total_orders + 1} :
        /\ Stats.total_orders < MaxHeldOrders
        /\ process_order(order, timestamp, keep)
        /\ prev' = BeforeOrder(order)
        /\ UNCHANGED genVars

KeepSnapshot ==
    \E timestamp \in Timestamps, keep \in BOOLEAN :
        /\ Snapshot(timestamp, keep)
        /\ UNCHANGED prev
        /\ UNCHANGED genVars

NextHeld == KeepProcessOrder \/ KeepSnapshot \/ Reset

SpecHeld == Init /\ [][NextHeld]_vars

----------------------------------------------------------------------------
\* synthetic_data.py: the order generator

\* Bounds of the generator model

RawRange == 4       \* values one draw of a random source can take
MaxPulls == 2       \* orders the driver of main.py pulls from stream()
MaxRunPulls == 3    \* orders each run of the reproducibility test pulls
MaxSeed == 3        \* seeds are 0..MaxSeed
MaxLevels == 3      \* n_initial_levels is 1..MaxLevels
VolUnit == 5        \* volume quanta in a volume of 1.0; a quantum is 1e-6

\* The GeneratorConfig of the model: seed and n_initial_levels are chosen when
\* a generator is constructed, the other knobs have the defaults below unless
\* the constructing code overrides them.  Prices, probabilities and cancel
\* fractions are in the units of the model; the tick spread and the volume
\* ranges are small values of the knobs.
initial_price == 100000000 * PriceRes   \* 100.0
tick_size == 10000 * PriceRes           \* 0.01
initial_vol_min == 1
initial_vol_max == 2
prob_limit == 25                        \* percent
prob_market == 25                       \* percent
prob_cancel == 25                       \* percent
limit_spread_ticks == 2
limit_vol_min == 1
limit_vol_max == 2
market_vol_min == 1
market_vol_max == 2
cancel_frac_min == 20                   \* percent
cancel_frac_max == 100                  \* percent
Seeds == 0..MaxSeed

\* GeneratorConfig(seed=..., n_initial_levels=...)
GeneratorConfig(seed, n_initial_levels) ==
    [seed |-> seed, n_initial_levels |-> n_initial_levels,
     initial_vol_min |-> initial_vol_min, initial_vol_max |-> initial_vol_max,
     prob_limit |-> prob_limit, prob_market |-> prob_market,
     prob_cancel |-> prob_cancel, limit_spread_ticks |-> limit_spread_ticks,
     limit_vol_min |-> limit_vol_min, limit_vol_max |-> limit_vol_max,
     market_vol_min |-> market_vol_min, market_vol_max |-> market_vol_max,
     cancel_frac_min |-> cancel_frac_min, cancel_frac_max |-> cancel_frac_max]

\* self.cfg: the configuration of the generator constructed
cfg == generator[1].cfg

\* A random source is a state that yields one raw value and moves on; a source
\* seeded from the operating system's entropy is None, and its draws are
\* unknown.
Raw == 0..(RawRange - 1)
Period == RawRange * RawRange
Advance(s) == ((RawRange + 1) * s + 1) % Period
Value(s) == s \div RawRange

RECURSIVE AdvanceBy(_, _)
AdvanceBy(source, k) ==
    IF source = None \/ k = 0 THEN source
    ELSE AdvanceBy(Some(Advance(source[1])), k - 1)

RECURSIVE Values(_, _)
Values(s, k) == IF k = 0 THEN <<>> ELSE <<Value(s)>> \o Values(Advance(s), k - 1)

\* the values the next k draws of a source can return
Draws(source, k) ==
    IF source = None THEN [1..k -> Raw] ELSE {Values(source[1], k)}

\* np.random.default_rng(seed) and random.seed(seed): the two libraries derive
\* unrelated states from one seed
default_rng(seed) == IF seed = None THEN None ELSE Some(seed[1] % Period)
random_seed(seed) == IF seed = None THEN None ELSE Some((RawRange * seed[1] + 1) % Period)

\* rng.random() < percent / 100, for the raw value the draw returned
Below(raw, percent) == raw * 100 < percent * RawRange
\* rng.integers(low, high): low <= result < high
integers(raw, low, high) == low + (raw * (high - low)) \div RawRange
\* rng.uniform(low, high) of two percentages, in units of 1 / (100 * RawRange)
uniform(raw, low, high) == low * RawRange + raw * (high - low)
\* random.choice(seq): raises IndexError on an empty sequence
choice(raw, seq) == seq[1 + (raw * Len(seq)) \div RawRange]

\* What one of the _random_* methods did: the order it returned (None when it
\* raised), the draws it took from self.rng, and whether it drew from module
\* random.
Returned(order, used, chose) ==
    [order |-> Some(order), used |-> used, chose |-> chose, raised |-> FALSE]
Raised(used, chose) ==
    [order |-> None, used |-> used, chose |-> chose, raised |-> TRUE]

\* mutant: the reference is initial_price whatever the book holds
Reference_initial_price == initial_price

\* mid = self.book.mid_price or self.cfg.initial_price
Reference ==
    IF mid_price = None \/ mid_price[1] = 0 THEN initial_price ELSE mid_price[1]

\* mutant: the offset applied the wrong way round, a BID above the reference
_random_limit_signs_swapped(d) ==
    LET side == IF Below(d[1], 50) THEN "BID" ELSE "ASK"
        mid == Reference
        offset == integers(d[2], 1, cfg.limit_spread_ticks + 1)
        price == IF side = "BID"
                 THEN Round6(mid + offset * tick_size, 1)
                 ELSE Round6(mid - offset * tick_size, 1)
        vol == VolUnit * integers(d[3], cfg.limit_vol_min, cfg.limit_vol_max + 1)
    IN  Returned(Order("LIMIT", side, price, vol), 3, FALSE)

\* d: the raw values self.rng returns, in the order they are drawn
_random_limit(d) ==
    LET side == IF Below(d[1], 50) THEN "BID" ELSE "ASK"
        mid == Reference
        offset == integers(d[2], 1, cfg.limit_spread_ticks + 1)
        price == IF side = "BID"
                 THEN Round6(mid - offset * tick_size, 1)
                 ELSE Round6(mid + offset * tick_size, 1)
        vol == VolUnit * integers(d[3], cfg.limit_vol_min, cfg.limit_vol_max + 1)
    IN  Returned(Order("LIMIT", side, price, vol), 3, FALSE)

_random_market(d) ==
    LET side == IF Below(d[1], 50) THEN "BID" ELSE "ASK"
        vol == VolUnit * integers(d[2], cfg.market_vol_min, cfg.market_vol_max + 1)
    IN  Returned(Order("MARKET", side, 0, vol), 2, FALSE)

\* the (side, price, volume) triples of the snapshot, bids first
all_levels ==
    LET snap == snapshot(0, _stats)
    IN  [i \in DOMAIN snap.bid_prices |->
            [side |-> "BID", price |-> snap.bid_prices[i], vol |-> snap.bid_volumes[i]]]
        \o
        [i \in DOMAIN snap.ask_prices |->
            [side |-> "ASK", price |-> snap.ask_prices[i], vol |-> snap.ask_volumes[i]]]

\* round(vol * frac, 6), frac in units of 1 / (100 * RawRange)
CancelVolume(vol, frac) == RoundDiv(vol * frac, 100 * RawRange)

\* mutant: no fallback when there is nothing to cancel
_random_cancel_unguarded(d, g) ==
    IF all_levels = <<>> THEN Raised(0, TRUE)
    ELSE LET level == choice(g, all_levels)
             frac == uniform(d[1], cfg.cancel_frac_min, cfg.cancel_frac_max)
         IN  Returned(Order("CANCEL", level.side, level.price,
                            CancelVolume(level.vol, frac)), 1, TRUE)

\* g: the raw value module random returns
_random_cancel(d, g) ==
    IF all_levels = <<>> THEN _random_limit(d)
    ELSE LET level == choice(g, all_levels)
             frac == uniform(d[1], cfg.cancel_frac_min, cfg.cancel_frac_max)
         IN  Returned(Order("CANCEL", level.side, level.price,
                            CancelVolume(level.vol, frac)), 1, TRUE)

\* mutant: the cancel branch is taken only below the sum of the three
\* probabilities, and what is left goes to the limit branch
_next_order_consults_cancel(d, g) ==
    LET r == d[1]
        res == IF Below(r, cfg.prob_limit) THEN _random_limit(Tail(d))
               ELSE IF Below(r, cfg.prob_limit + cfg.prob_market) THEN _random_market(Tail(d))
               ELSE IF Below(r, cfg.prob_limit + cfg.prob_market + cfg.prob_cancel)
                    THEN _random_cancel(Tail(d), g)
               ELSE _random_limit(Tail(d))
        branch == IF Below(r, cfg.prob_limit) THEN "_random_limit"
                  ELSE IF Below(r, cfg.prob_limit + cfg.prob_market) THEN "_random_market"
                  ELSE IF Below(r, cfg.prob_limit + cfg.prob_market + cfg.prob_cancel)
                       THEN "_random_cancel"
                  ELSE "_random_limit"
    IN  [res EXCEPT !.used = @ + 1] @@ [r |-> r, branch |-> branch]

\* the result of the branch taken, with r and the name of the branch
_next_order(d, g) ==
    LET r == d[1]
        res == IF Below(r, cfg.prob_limit) THEN _random_limit(Tail(d))
               ELSE IF Below(r, cfg.prob_limit + cfg.prob_market) THEN _random_market(Tail(d))
               ELSE _random_cancel(Tail(d), g)
        branch == IF Below(r, cfg.prob_limit) THEN "_random_limit"
                  ELSE IF Below(r, cfg.prob_limit + cfg.prob_market) THEN "_random_market"
                  ELSE "_random_cancel"
    IN  [res EXCEPT !.used = @ + 1] @@ [r |-> r, branch |-> branch]

\* mutant: a constructor that seeds self.rng only
SyntheticOrderGenerator_rng_only(config) ==
    /\ generator' = Some([cfg |-> config, rng |-> default_rng(config.seed)])
    /\ random' = random

\* SyntheticOrderGenerator(config, book)
SyntheticOrderGenerator(config) ==
    /\ generator' = Some([cfg |-> config, rng |-> default_rng(config.seed)])
    /\ random' = random_seed(config.seed)

\* mutant: the level is added without the order being counted
process_limit_uncounted(book, order) ==
    [bids |-> IF order.side = "BID"
              THEN _add_limit(book.bids, order.price, order.volume) ELSE book.bids,
     asks |-> IF order.side = "BID"
              THEN book.asks ELSE _add_limit(book.asks, order.price, order.volume),
     stats |-> book.stats]

\* process_order(order) for a LIMIT order with the default timestamp, on a
\* book given as [bids, asks, stats]: the book after the order
process_limit(book, order) ==
    [bids |-> IF order.side = "BID"
              THEN _add_limit(book.bids, order.price, order.volume) ELSE book.bids,
     asks |-> IF order.side = "BID"
              THEN book.asks ELSE _add_limit(book.asks, order.price, order.volume),
     stats |-> [Counted(book.stats, order) EXCEPT !.limit_orders = @ + 1]]

\* mutant: the levels counted from 0, range(n) for range(1, n + 1)
RECURSIVE SeedLoop_from_zero(_, _, _)
SeedLoop_from_zero(book, i, d) ==
    IF i > cfg.n_initial_levels THEN book
    ELSE LET bid_price == Round6(initial_price - (i - 1) * tick_size, 1)
             ask_price == Round6(initial_price + (i - 1) * tick_size, 1)
             bid_vol == integers(d[2 * i - 1], cfg.initial_vol_min, cfg.initial_vol_max + 1)
             ask_vol == integers(d[2 * i], cfg.initial_vol_min, cfg.initial_vol_max + 1)
             bid == Order("LIMIT", "BID", bid_price, VolUnit * bid_vol)
             ask == Order("LIMIT", "ASK", ask_price, VolUnit * ask_vol)
         IN  SeedLoop_from_zero(process_limit(process_limit(book, bid), ask), i + 1, d)

\* the loop of seed_book from level i on, on a book given as [bids, asks, stats]
RECURSIVE SeedLoop(_, _, _)
SeedLoop(book, i, d) ==
    IF i > cfg.n_initial_levels THEN book
    ELSE LET bid_price == Round6(initial_price - i * tick_size, 1)
             ask_price == Round6(initial_price + i * tick_size, 1)
             bid_vol == integers(d[2 * i - 1], cfg.initial_vol_min, cfg.initial_vol_max + 1)
             ask_vol == integers(d[2 * i], cfg.initial_vol_min, cfg.initial_vol_max + 1)
             bid == Order("LIMIT", "BID", bid_price, VolUnit * bid_vol)
             ask == Order("LIMIT", "ASK", ask_price, VolUnit * ask_vol)
         IN  SeedLoop(process_limit(process_limit(book, bid), ask), i + 1, d)

\* seed_book(), for the draws D that self.rng can return; every process_order
\* call it makes has the default timestamp and its snapshot is dropped
seed_book(D) ==
    \E book \in {SeedLoop([bids |-> _bids, asks |-> _asks, stats |-> Stats], 1, d) : d \in D} :
        /\ _bids' = book.bids
        /\ _asks' = book.asks
        /\ _time' = 0
        /\ _stats' = _stats
        /\ heap' = [heap EXCEPT ![_stats] = book.stats]
        /\ held' = held
        /\ generator' = Some([generator[1] EXCEPT
                                 !.rng = AdvanceBy(@, 2 * cfg.n_initial_levels)])

\* mutant: a stream that runs one order ahead of its consumer: each request
\* returns the order generated during the request before it and generates the
\* next one
stream_ahead(D, G) ==
    \E res \in {_next_order(d, g[1]) : d \in D, g \in G} :
        /\ pending' = IF "ahead" \in DOMAIN generator[1]
                       THEN generator[1].ahead ELSE res.order
        /\ pulled' = Some([r |-> res.r, branch |-> res.branch, raised |-> res.raised])
        /\ generator' = Some([cfg |-> cfg, rng |-> AdvanceBy(generator[1].rng, res.used),
                              ahead |-> res.order])
        /\ random' = IF res.chose THEN AdvanceBy(random, 1) ELSE random
        /\ UNCHANGED <<bookVars, tick, runs, ledger>>

\* mutant: a stream that submits each order to the book before yielding it
stream_submits(D, G) ==
    \E res \in {_next_order(d, g[1]) : d \in D, g \in G} :
        /\ pending' = res.order
        /\ pulled' = Some([r |-> res.r, branch |-> res.branch, raised |-> res.raised])
        /\ generator' = Some([generator[1] EXCEPT !.rng = AdvanceBy(@, res.used)])
        /\ random' = IF res.chose THEN AdvanceBy(random, 1) ELSE random
        /\ process_order(res.order[1], 0, FALSE)
        /\ UNCHANGED <<prev, tick, runs, ledger>>

\* next(stream): one pass of the loop of stream(), up to its yield, for the
\* draws D that self.rng and G that module random can return. What the pass
\* does to the book is the self.book.snapshot() call of _random_cancel, whose
\* snapshot is dropped when _random_cancel returns.
stream(D, G) ==
    \E res \in {_next_order(d, g[1]) : d \in D, g \in G} :
        /\ pending' = res.order
        /\ pulled' = Some([r |-> res.r, branch |-> res.branch, raised |-> res.raised])
        /\ generator' = Some([generator[1] EXCEPT !.rng = AdvanceBy(@, res.used)])
        /\ random' = IF res.chose THEN AdvanceBy(random, 1) ELSE random
        /\ IF res.branch = "_random_cancel"
           THEN Snapshot(0, FALSE)
           ELSE UNCHANGED <<_bids, _asks, _time, _stats, heap, held>>
        /\ UNCHANGED <<prev, tick, runs, ledger>>

----------------------------------------------------------------------------
\* The driver of main.py with a generator of one initial level whose draws
\* are unknown (seed None); it may also stream on a book it has not seeded.

MainConstruct ==
    /\ generator = None
    /\ SyntheticOrderGenerator(GeneratorConfig(None, 1))
    /\ UNCHANGED <<bookVars, pending, pulled, tick, runs, ledger>>

MainSeedBook ==
    /\ generator # None
    /\ Stats.total_orders = 0
    /\ pending = None
    /\ seed_book(Draws(generator[1].rng, 2 * cfg.n_initial_levels))
    /\ prev' = Before("seed_book")
    /\ UNCHANGED <<random, pending, pulled, tick, runs, ledger>>

MainPull ==
    /\ generator # None
    /\ pending = None
    /\ tick < MaxPulls
    /\ stream(Draws(generator[1].rng, 4), Draws(random, 1))

MainProcess ==
    /\ pending # None
    /\ \E t \in {tick + 1} :
          /\ tick' = t
          /\ process_order(pending[1], t, FALSE)
    /\ prev' = BeforeOrder(pending[1])
    /\ pending' = None
    /\ pulled' = None
    /\ UNCHANGED <<generator, random, runs, ledger>>

NextGen == MainConstruct \/ MainSeedBook \/ MainPull \/ MainProcess

SpecGen == Init /\ [][NextGen]_vars

\* The driver of test_synthetic_data_generator, up to the first order it
\* pulls: a generator of 1..MaxLevels initial levels whose draws are unknown.

SmokeConstruct ==
    /\ generator = None
    /\ \E n \in 1..MaxLevels : SyntheticOrderGenerator(GeneratorConfig(None, n))
    /\ UNCHANGED <<bookVars, pending, pulled, tick, runs, ledger>>

SmokePull ==
    /\ Stats.total_orders > 0
    /\ pending = None
    /\ stream(Draws(generator[1].rng, 4), Draws(random, 1))

NextSeed == SmokeConstruct \/ MainSeedBook \/ SmokePull

SpecSeed == Init /\ [][NextSeed]_vars

\* The driver of test_reproducibility: two runs one after the other, each on
\* a new book with a new generator of the same seed, each seeding the book and
\* then processing MaxRunPulls orders; runs records the book after seed_book
\* and each order with the book after it.

Logged == LET snap == snapshot(0, _stats)
          IN  [bid_prices |-> snap.bid_prices, bid_volumes |-> snap.bid_volumes,
               ask_prices |-> snap.ask_prices, ask_volumes |-> snap.ask_volumes]

TestConstruct ==
    /\ generator = None
    /\ \E seed \in Seeds, n \in 1..MaxLevels :
          SyntheticOrderGenerator(GeneratorConfig(Some(seed), n))
    /\ runs' = << <<>> >>
    /\ UNCHANGED <<bookVars, pending, pulled, tick, ledger>>

TestSeedBook ==
    /\ generator # None
    /\ Stats.total_orders = 0
    /\ seed_book(Draws(generator[1].rng, 2 * cfg.n_initial_levels))
    /\ prev' = Before("seed_book")
    /\ runs' = [runs EXCEPT ![Len(runs)] = Append(@, [order |-> None, book |-> Logged'])]
    /\ UNCHANGED <<random, pending, pulled, tick, ledger>>

TestPull ==
    /\ generator # None
    /\ Stats.total_orders > 0
    /\ pending = None
    /\ tick < MaxRunPulls
    /\ stream(Draws(generator[1].rng, 4), Draws(random, 1))

TestProcess ==
    /\ pending # None
    /\ process_order(pending[1], tick, FALSE)
    /\ tick' = tick + 1
    /\ prev' = BeforeOrder(pending[1])
    /\ runs' = [runs EXCEPT ![Len(runs)] = Append(@, [order |-> pending, book |-> Logged'])]
    /\ pending' = None
    /\ pulled' = None
    /\ UNCHANGED <<generator, random, ledger>>

\* the second run: LimitOrderBook() leaves what reset leaves
TestNextRun ==
    /\ Len(runs) = 1
    /\ tick = MaxRunPulls
    /\ reset
    /\ prev' = Before("init")
    /\ SyntheticOrderGenerator(cfg)
    /\ runs' = Append(runs, <<>>)
    /\ tick' = 0
    /\ UNCHANGED <<pending, pulled, ledger>>

NextRuns == TestConstruct \/ TestSeedBook \/ TestPull \/ TestProcess \/ TestNextRun

SpecRuns == Init /\ [][NextRuns]_vars

\* The same two runs, the second in a process where other code uses module
\* random between its steps: it draws from it (as the cancel branch of any
\* other generator does), or it constructs another generator with the same
\* config.

OtherChoice ==
    /\ Len(runs) = 2
    /\ random' = AdvanceBy(random, 1)
    /\ UNCHANGED <<bookVars, generator, pending, pulled, tick, runs, ledger>>

OtherGenerator ==
    /\ Len(runs) = 2
    /\ random' = random_seed(cfg.seed)
    /\ UNCHANGED <<bookVars, generator, pending, pulled, tick, runs, ledger>>

NextShared == NextRuns \/ OtherChoice \/ OtherGenerator

SpecShared == Init /\ [][NextShared]_vars

\* The closed loop of main.py run for longer: seed_book() on the new book, then
\* MaxLoopPulls times one order pulled from stream() and processed.  As in
\* main.py the configuration overrides the limit spread with a wide one; the
\* volume ranges are single values and the arrival probabilities leave no mass
\* to the cancel branch.

MaxLoopPulls == 5   \* orders the longer loop pulls from stream()

gen_config ==
    [GeneratorConfig(None, 1) EXCEPT
        !.limit_spread_ticks = 6,
        !.initial_vol_max = 1, !.limit_vol_max = 1, !.market_vol_max = 1,
        !.prob_limit = 50, !.prob_market = 50, !.prob_cancel = 0]

LoopConstruct ==
    /\ generator = None
    /\ SyntheticOrderGenerator(gen_config)
    /\ UNCHANGED <<bookVars, pending, pulled, tick, runs, ledger>>

LoopPull ==
    /\ generator # None
    /\ Stats.total_orders > 0
    /\ pending = None
    /\ tick < MaxLoopPulls
    /\ stream(Draws(generator[1].rng, 4), Draws(random, 1))

NextLoop == LoopConstruct \/ MainSeedBook \/ LoopPull \/ MainProcess

SpecLoop == Init /\ [][NextLoop]_vars

\* The same loop on a book seeded with two levels a side, each of the smallest
\* volume, so that one MARKET order can move a best price: the orders pulled
\* after it are priced from a mid_price that is not initial_price.

MaxDriftPulls == 2  \* orders this loop pulls from stream()

drift_config == [GeneratorConfig(None, 2) EXCEPT !.initial_vol_max = 1]

DriftConstruct ==
    /\ generator = None
    /\ SyntheticOrderGenerator(drift_config)
    /\ UNCHANGED <<bookVars, pending, pulled, tick, runs, ledger>>

DriftPull ==
    /\ generator # None
    /\ Stats.total_orders > 0
    /\ pending = None
    /\ tick < MaxDriftPulls
    /\ stream(Draws(generator[1].rng, 4), Draws(random, 1))

NextDrift == DriftConstruct \/ MainSeedBook \/ DriftPull \/ MainProcess

SpecDrift == Init /\ [][NextDrift]_vars

\* A client that keeps the ledger of what it submits: it constructs a
\* generator of one initial level, calls seed_book, submits orders of
\* volume > 0 at the two prices seed_book uses, and resets the book.

MaxLedgerOrders == 4   \* process_order calls between two resets

LedgerPrices == {initial_price - tick_size, initial_price + tick_size}

\* the ledger after process_order(order)
Entered(order) ==
    [calls |-> ledger.calls + 1,
     limit_volume |-> ledger.limit_volume
                        + (IF order.order_type = "LIMIT" THEN order.volume ELSE 0),
     market_volume |-> ledger.market_volume
                        + (IF order.order_type = "MARKET" THEN order.volume ELSE 0),
     cancel_hit |-> \/ ledger.cancel_hit
                    \/ /\ order.order_type = "CANCEL"
                       /\ order.price \in DOMAIN (IF order.side = "BID" THEN _bids ELSE _asks)]

\* the volume of the first k LIMIT orders of seed_book, for the draws d
RECURSIVE SeedVolume(_, _)
SeedVolume(d, k) ==
    IF k = 0 THEN 0
    ELSE VolUnit * integers(d[k], cfg.initial_vol_min, cfg.initial_vol_max + 1)
         + SeedVolume(d, k - 1)

\* the ledger after seed_book() with the draws d
Seeded(d) ==
    [ledger EXCEPT
        !.calls = @ + 2 * cfg.n_initial_levels,
        !.limit_volume = @ + SeedVolume(d, 2 * cfg.n_initial_levels)]

LedgerConstruct ==
    /\ generator = None
    /\ SyntheticOrderGenerator(GeneratorConfig(None, 1))
    /\ UNCHANGED <<bookVars, pending, pulled, tick, runs, ledger>>

LedgerSeedBook ==
    /\ generator # None
    /\ Stats.total_orders + 2 * cfg.n_initial_levels <= MaxLedgerOrders
    /\ \E d \in Draws(generator[1].rng, 2 * cfg.n_initial_levels) :
          /\ seed_book({d})
          /\ ledger' = Seeded(d)
    /\ prev' = Before("seed_book")
    /\ UNCHANGED <<random, pending, pulled, tick, runs>>

LedgerProcessOrder ==
    \E order \in Orders(LedgerPrices, PositiveVolumes) :
        /\ Stats.total_orders < MaxLedgerOrders
        /\ process_order(order, 0, FALSE)
        /\ prev' = BeforeOrder(order)
        /\ ledger' = Entered(order)
        /\ UNCHANGED <<generator, random, pending, pulled, tick, runs>>

LedgerReset ==
    /\ reset
    /\ prev' = Before("reset")
    /\ ledger' = NothingSubmitted
    /\ UNCHANGED <<generator, random, pending, pulled, tick, runs>>

NextLedger == LedgerConstruct \/ LedgerSeedBook \/ LedgerProcessOrder \/ LedgerReset

SpecLedger == Init /\ [][NextLedger]_vars

\* Two runs from the same seeded book, each on a new book with a new generator
\* of the same seed: the first submits MaxRunPulls LIMIT orders of its choice,
\* the second the same orders in an order of its choice; runs records every
\* order with what the book quotes after it.

Quoted == LET snap == snapshot(0, _stats)
          IN  [bid_prices |-> snap.bid_prices, bid_volumes |-> snap.bid_volumes,
               ask_prices |-> snap.ask_prices, ask_volumes |-> snap.ask_volumes,
               best_bid |-> snap.best_bid, best_ask |-> snap.best_ask,
               mid_price |-> snap.mid_price, spread |-> snap.spread]

LimitOrders ==
    {Order("LIMIT", s, p, v) : s \in Sides, p \in LedgerPrices, v \in {1, 2}}

\* how many times a run submitted the order
Submitted(run, order) ==
    Cardinality({i \in DOMAIN run : run[i].order = Some(order)})

\* the orders of the first run that the second has yet to submit
Remaining ==
    {order \in LimitOrders : Submitted(runs[1], order) > Submitted(runs[2], order)}

PermuteConstruct ==
    /\ generator = None
    /\ \E seed \in {0, MaxSeed} :
          SyntheticOrderGenerator(GeneratorConfig(Some(seed), 1))
    /\ runs' = << <<>> >>
    /\ UNCHANGED <<bookVars, pending, pulled, tick, ledger>>

PermuteLimit ==
    /\ generator # None
    /\ Stats.total_orders > 0
    /\ tick < MaxRunPulls
    /\ \E order \in IF Len(runs) = 1 THEN LimitOrders ELSE Remaining :
          /\ process_order(order, tick, FALSE)
          /\ prev' = BeforeOrder(order)
          /\ runs' = [runs EXCEPT ![Len(runs)] =
                         Append(@, [order |-> Some(order), book |-> Quoted'])]
    /\ tick' = tick + 1
    /\ UNCHANGED <<generator, random, pending, pulled, ledger>>

NextPermute == PermuteConstruct \/ TestSeedBook \/ PermuteLimit \/ TestNextRun

SpecPermute == Init /\ [][NextPermute]_vars

----------------------------------------------------------------------------
\* Vocabulary of the properties

\* the order the last process_order applied
LastOrder == Stats.last_order[1]

\* the last call that changed the book was process_order with an order of type t
Acted(t) ==
    /\ prev.op = "process_order"
    /\ Stats.last_order # None
    /\ LastOrder.order_type = t

\* the order's own side and the opposite side, now and before the call
Own == IF LastOrder.side = "BID" THEN _bids ELSE _asks
Opp == IF LastOrder.side = "BID" THEN _asks ELSE _bids
PrevOwn == IF LastOrder.side = "BID" THEN prev.bids ELSE prev.asks
PrevOpp == IF LastOrder.side = "BID" THEN prev.asks ELSE prev.bids

\* aggregate volume of one side
RECURSIVE Total(_)
Total(book) ==
    IF DOMAIN book = {} THEN 0
    ELSE LET p == min(DOMAIN book) IN book[p] + Total(DelItem(book, p))

AllPositive(book) == \A p \in DOMAIN book : book[p] > 0

\* q is a better price than p on the side a market order of LastOrder consumes
Better(q, p) == IF LastOrder.side = "BID" THEN q < p ELSE q > p

----------------------------------------------------------------------------
MarketPricePriority ==
    Acted("MARKET") =>
        /\ DOMAIN Opp \subseteq DOMAIN PrevOpp
        /\ \A p \in DOMAIN PrevOpp :
              (p \notin DOMAIN Opp \/ Opp[p] # PrevOpp[p]) =>
                  \A q \in DOMAIN PrevOpp : Better(q, p) => q \notin DOMAIN Opp
        /\ Cardinality({p \in DOMAIN Opp : Opp[p] # PrevOpp[p]}) <= 1
        /\ \A p \in DOMAIN Opp : Opp[p] <= PrevOpp[p]
        /\ \A p, q \in DOMAIN Opp : Better(p, q) => Opp[q] = PrevOpp[q]

\* three levels: the best removed, the next partially filled, the worst untouched
MarketPricePriorityWitness ==
    /\ Acted("MARKET")
    /\ \E p, q, r \in DOMAIN PrevOpp :
          /\ Better(p, q) /\ Better(q, r)
          /\ p \notin DOMAIN Opp
          /\ q \in DOMAIN Opp /\ Opp[q] < PrevOpp[q]
          /\ r \in DOMAIN Opp /\ Opp[r] = PrevOpp[r]

\* C3 (as stated): in every reachable state, with any volume the book
\* accepts, no price is present in bids or asks or in the snapshot's volume
\* sequences with a non-positive volume.
NoNonPositiveLevel ==
    /\ AllPositive(_bids)
    /\ AllPositive(_asks)
    /\ \A i \in DOMAIN snapshot(_time, _stats).bid_volumes :
          snapshot(_time, _stats).bid_volumes[i] > 0
    /\ \A i \in DOMAIN snapshot(_time, _stats).ask_volumes :
          snapshot(_time, _stats).ask_volumes[i] > 0

\* C3 (amended): a MARKET or CANCEL order never leaves a level it changed at
\* a volume <= epsilon, and an order of strictly positive volume applied to a
\* book whose levels are all positive leaves no price in bids, asks or the
\* snapshot's sequences with a non-positive volume.
LevelDeletion ==
    prev.op = "process_order" =>
        /\ LastOrder.order_type \in {"MARKET", "CANCEL"} =>
              /\ \A p \in DOMAIN _bids :
                    Get(prev.bids, p) # _bids[p] => _bids[p] > Eps
              /\ \A p \in DOMAIN _asks :
                    Get(prev.asks, p) # _asks[p] => _asks[p] > Eps
        /\ (LastOrder.volume > 0 /\ AllPositive(prev.bids) /\ AllPositive(prev.asks)) =>
              NoNonPositiveLevel

\* a CANCEL of more than the resting volume, in a book that also holds a
\* level of non-positive volume, removed its level
LevelDeletionWitness ==
    /\ Acted("CANCEL")
    /\ LastOrder.volume > 0
    /\ LastOrder.price \in DOMAIN PrevOwn
    /\ PrevOwn[LastOrder.price] > 0
    /\ PrevOwn[LastOrder.price] - LastOrder.volume < 0
    /\ LastOrder.price \notin DOMAIN Own
    /\ ~AllPositive(PrevOpp)

\* C4: a LIMIT order sets the level at its price on its side to the previous
\* volume (0 if absent) plus the order volume, creating it if absent, and
\* leaves every other level of that side and the whole opposite side alone.
LimitAddsToLevel ==
    Acted("LIMIT") =>
        /\ DOMAIN Own = DOMAIN PrevOwn \cup {LastOrder.price}
        /\ Own[LastOrder.price] = Get(PrevOwn, LastOrder.price) + LastOrder.volume
        /\ \A p \in DOMAIN Own \ {LastOrder.price} : Own[p] = PrevOwn[p]
        /\ Opp = PrevOpp

\* the LIMIT order crossed the opposite best price and merged into a level
\* that already rested at its price
LimitAddsToLevelWitness ==
    /\ Acted("LIMIT")
    /\ LastOrder.side = "BID"
    /\ LastOrder.price \in DOMAIN prev.bids
    /\ prev.asks # EmptyDict
    /\ LastOrder.price > min(DOMAIN prev.asks)
    /\ Cardinality(DOMAIN _bids) > 1

\* the last LIMIT order was placed at or through the opposite best price
Crossing ==
    /\ Acted("LIMIT")
    /\ PrevOpp # EmptyDict
    /\ IF LastOrder.side = "BID"
       THEN LastOrder.price >= min(DOMAIN prev.asks)
       ELSE LastOrder.price <= max(DOMAIN prev.bids)

\* C5: a LIMIT order at or through the opposite best price rests on its own
\* side without executing (opposite side and total_volume_filled unchanged),
\* which leaves best_bid >= best_ask; in every state with best_bid >= best_ask
\* the snapshot reports a spread <= 0.
CrossedBookAllowed ==
    /\ Crossing =>
          /\ Own[LastOrder.price] = Get(PrevOwn, LastOrder.price) + LastOrder.volume
          /\ Opp = PrevOpp
          /\ Stats.total_volume_filled = prev.stats.total_volume_filled
          /\ best_bid # None /\ best_ask # None
          /\ best_bid[1] >= best_ask[1]
    /\ (best_bid # None /\ best_ask # None /\ best_bid[1] >= best_ask[1]) =>
          /\ snapshot(_time, _stats).spread # None
          /\ snapshot(_time, _stats).spread[1] <= 0

\* a LIMIT ASK placed below the best bid: the book is strictly crossed
CrossedBookAllowedWitness ==
    /\ Crossing
    /\ LastOrder.side = "ASK"
    /\ best_bid[1] > best_ask[1]
    /\ snapshot(_time, _stats).spread[1] < 0
    /\ Stats.total_volume_filled = 0

\* C6: a CANCEL order whose price exists on its side reduces exactly that
\* level by the order volume and deletes it when the result is <= epsilon;
\* all other levels on both sides and total_volume_filled are unchanged.
CancelReducesLevel ==
    (Acted("CANCEL") /\ LastOrder.price \in DOMAIN PrevOwn) =>
        LET left == PrevOwn[LastOrder.price] - LastOrder.volume
        IN  /\ left > Eps => /\ LastOrder.price \in DOMAIN Own
                             /\ Own[LastOrder.price] = left
            /\ left <= Eps => LastOrder.price \notin DOMAIN Own
            /\ DOMAIN Own \ {LastOrder.price} = DOMAIN PrevOwn \ {LastOrder.price}
            /\ \A p \in DOMAIN Own \ {LastOrder.price} : Own[p] = PrevOwn[p]
            /\ Opp = PrevOpp
            /\ Stats.total_volume_filled = prev.stats.total_volume_filled

\* a CANCEL of more than the resting volume removed the level and left the
\* other level of its side and the opposite side as they were
CancelReducesLevelWitness ==
    /\ Acted("CANCEL")
    /\ LastOrder.price \in DOMAIN PrevOwn
    /\ LastOrder.volume > PrevOwn[LastOrder.price]
    /\ LastOrder.price \notin DOMAIN Own
    /\ Own # EmptyDict
    /\ Opp # EmptyDict

\* C7: a CANCEL order whose price is not present on the named side changes
\* no level: bids and asks are as before, and only total_orders,
\* cancel_orders and last_order change.
CancelMissingIsNoOp ==
    (Acted("CANCEL") /\ LastOrder.price \notin DOMAIN PrevOwn) =>
        /\ _bids = prev.bids
        /\ _asks = prev.asks
        /\ Stats = [prev.stats EXCEPT !.total_orders = @ + 1,
                                      !.cancel_orders = @ + 1,
                                      !.last_order = Stats.last_order]

\* the cancelled price rests on the opposite side only
CancelMissingIsNoOpWitness ==
    /\ Acted("CANCEL")
    /\ LastOrder.price \notin DOMAIN PrevOwn
    /\ LastOrder.price \in DOMAIN PrevOpp
    /\ PrevOwn # EmptyDict
    /\ Stats.cancel_orders = 1

Deref(snap) == [snap[1] EXCEPT !.stats = heap[snap[1].stats]]

\* C10: a snapshot the client holds keeps the values it had when it was
\* returned, whatever process_order, snapshot or reset call the book serves.
SnapshotNeverAliases ==
    [][(held # None /\ held' = held) => Deref(held)' = Deref(held)]_vars

\* the client holds a snapshot and the book has moved on since it was taken
SnapshotNeverAliasesWitness ==
    /\ held # None
    /\ Deref(held).stats.total_orders = 1
    /\ Stats.total_orders = 2
    /\ Deref(held).bid_prices # sorted(DOMAIN _bids, TRUE)
    /\ Deref(held).timestamp # _time

\* a step in which the client received and kept a snapshot
SnapshotStep == held' # held /\ prev' = prev

\* the snapshot of the present state, as it reads at timestamp t
SnapshotNow(t) == [snapshot(t, _stats) EXCEPT !.stats = Stats]

\* C11: a snapshot call leaves both sides and every statistics field as they
\* were and returns the values of the state it was called in, so a second
\* call right after it, with the same timestamp, returns an equal snapshot.
SnapshotReadOnly ==
    [][SnapshotStep =>
          /\ _bids' = _bids
          /\ _asks' = _asks
          /\ Stats' = Stats
          /\ Deref(held)' = SnapshotNow(held'[1].timestamp)
          /\ (/\ held # None
              /\ Deref(held) = SnapshotNow(held[1].timestamp)
              /\ held'[1].timestamp = held[1].timestamp) =>
                 Deref(held)' = Deref(held)]_vars

\* the client holds a snapshot of the present state of a book with both sides
\* occupied and orders counted
SnapshotReadOnlyWitness ==
    /\ held # None
    /\ Deref(held) = SnapshotNow(held[1].timestamp)
    /\ _bids # EmptyDict
    /\ _asks # EmptyDict
    /\ Stats.total_orders = MaxHeldOrders

\* C12: every process_order call adds 1 to total_orders and 1 to the counter
\* of the order's type, leaves the two other type counters as they were and
\* sets last_order to the order it was given, whatever it does to the levels.
ProcessOrderCounts ==
    prev.op = "process_order" =>
        /\ Stats.last_order = Some(prev.order)
        /\ Stats.total_orders = prev.stats.total_orders + 1
        /\ Stats.limit_orders = prev.stats.limit_orders
                + (IF prev.order.order_type = "LIMIT" THEN 1 ELSE 0)
        /\ Stats.market_orders = prev.stats.market_orders
                + (IF prev.order.order_type = "MARKET" THEN 1 ELSE 0)
        /\ Stats.cancel_orders = prev.stats.cancel_orders
                + (IF prev.order.order_type = "CANCEL" THEN 1 ELSE 0)

\* a MARKET order that found the opposite side empty and filled nothing is
\* counted, after an earlier order of another type
ProcessOrderCountsWitness ==
    /\ prev.op = "process_order"
    /\ prev.order.order_type = "MARKET"
    /\ (IF prev.order.side = "BID" THEN prev.asks ELSE prev.bids) = EmptyDict
    /\ _bids = prev.bids
    /\ _asks = prev.asks
    /\ prev.stats.cancel_orders = 1
    /\ Stats.market_orders = prev.stats.market_orders + 1

\* the snapshot of a book that was just constructed
FreshSnapshot(t) ==
    [bid_prices |-> <<>>, bid_volumes |-> <<>>,
     ask_prices |-> <<>>, ask_volumes |-> <<>>,
     best_bid |-> None, best_ask |-> None, mid_price |-> None, spread |-> None,
     timestamp |-> t, stats |-> ExecutionStats]

\* C13: after reset, from whatever state it was called in, both sides are
\* empty, every counter and total_volume_filled are 0 and last_order is
\* undefined: the book is in the state of a book just constructed, and its
\* snapshot is the snapshot of such a book.
ResetRestoresInitial ==
    prev.op = "reset" =>
        /\ _bids = EmptyDict
        /\ _asks = EmptyDict
        /\ _time = 0
        /\ Stats = ExecutionStats
        /\ \A t \in Timestamps : SnapshotNow(t) = FreshSnapshot(t)

\* reset was called on a book that had served MaxAnyOrders orders and filled
\* volume
ResetRestoresInitialWitness ==
    /\ prev.op = "reset"
    /\ prev.stats.total_orders = MaxAnyOrders
    /\ prev.stats.total_volume_filled > 0
    /\ prev.stats.limit_orders > 0
    /\ Stats.total_orders = 0

\* C14: in a snapshot the bid prices strictly descend and the ask prices
\* strictly ascend, the prices listed on a side are exactly the levels of that
\* side, each once, with the level's volume at the same index, and best_bid and
\* best_ask are the first price of their sequence, undefined when it is empty.
SnapshotOrdered ==
    LET snap == snapshot(_time, _stats)
        Listed(prices, volumes, book) ==
            /\ Len(prices) = Cardinality(DOMAIN book)
            /\ Len(volumes) = Len(prices)
            /\ {prices[i] : i \in DOMAIN prices} = DOMAIN book
            /\ \A i \in DOMAIN prices : volumes[i] = book[prices[i]]
        First(prices) == IF Len(prices) = 0 THEN None ELSE Some(prices[1])
    IN  /\ \A i, j \in DOMAIN snap.bid_prices :
              i < j => snap.bid_prices[i] > snap.bid_prices[j]
        /\ \A i, j \in DOMAIN snap.ask_prices :
              i < j => snap.ask_prices[i] < snap.ask_prices[j]
        /\ Listed(snap.bid_prices, snap.bid_volumes, _bids)
        /\ Listed(snap.ask_prices, snap.ask_volumes, _asks)
        /\ snap.best_bid = First(snap.bid_prices)
        /\ snap.best_ask = First(snap.ask_prices)

\* the bids hold two levels of different volumes and the asks one
SnapshotOrderedWitness ==
    LET snap == snapshot(_time, _stats)
    IN  /\ Len(snap.bid_prices) = 2
        /\ Len(snap.ask_prices) = 1
        /\ snap.bid_volumes[1] > 0
        /\ snap.bid_volumes[2] > snap.bid_volumes[1]

Abs(n) == IF n < 0 THEN 0 - n ELSE n

\* n is a whole number of 1e-6 and no other one is nearer to num / den
Rounded6(n, num, den) ==
    /\ n % PriceRes = 0
    /\ 2 * Abs(den * n - num) <= den * PriceRes

\* C15 as stated: mid_price and spread are defined exactly when both sides are
\* occupied, and then mid_price is the mean of best_bid and best_ask and spread
\* is best_ask minus best_bid.
MidIsMeanSpreadIsDifference ==
    /\ mid_price # None <=> (_bids # EmptyDict /\ _asks # EmptyDict)
    /\ spread # None <=> (_bids # EmptyDict /\ _asks # EmptyDict)
    /\ mid_price # None => 2 * mid_price[1] = best_bid[1] + best_ask[1]
    /\ spread # None => spread[1] = best_ask[1] - best_bid[1]

\* C15: mid_price and spread are defined exactly when both sides are occupied,
\* and then mid_price is the mean of the present best_bid and best_ask rounded
\* to 6 decimal places and spread is the present best_ask minus best_bid
\* rounded to 6 decimal places.
MidAndSpreadRounded ==
    /\ mid_price # None <=> (_bids # EmptyDict /\ _asks # EmptyDict)
    /\ spread # None <=> (_bids # EmptyDict /\ _asks # EmptyDict)
    /\ mid_price # None =>
          Rounded6(mid_price[1], max(DOMAIN _bids) + min(DOMAIN _asks), 2)
    /\ spread # None =>
          Rounded6(spread[1], min(DOMAIN _asks) - max(DOMAIN _bids), 1)

\* an order moved the best bid, and the mean of the new best prices is not a
\* whole number of 1e-6
MidAndSpreadRoundedWitness ==
    /\ Acted("LIMIT")
    /\ LastOrder.side = "BID"
    /\ prev.bids # EmptyDict
    /\ prev.asks # EmptyDict
    /\ LastOrder.price > max(DOMAIN prev.bids)
    /\ mid_price # None
    /\ 2 * mid_price[1] # best_bid[1] + best_ask[1]

\* the entries two runs have both logged
Common == 1..min({Len(runs[1]), Len(runs[2])})

\* C16 as stated: the orders a generator produces depend on its seed and
\* config alone, so the second run, whatever other code does with module random
\* between its steps, produces the orders of the first.
SelfContainedSource ==
    Len(runs) = 2 => \A i \in Common : runs[2][i].order = runs[1][i].order

\* C17: two runs one after the other, each on a new book with a new generator
\* of the same seed and config, leave the same bid and ask prices and volumes
\* after seed_book and after every order.
RunsReproducible ==
    Len(runs) = 2 => \A i \in Common : runs[2][i].book = runs[1][i].book

\* the second run is complete, and it cancelled from a book of several levels
RunsReproducibleWitness ==
    /\ Len(runs) = 2
    /\ Len(runs[2]) = MaxRunPulls + 1
    /\ \E i \in 2..Len(runs[2]) :
          /\ runs[2][i].order[1].order_type = "CANCEL"
          /\ Len(runs[2][i - 1].book.bid_prices) + Len(runs[2][i - 1].book.ask_prices) > 2
    /\ \E i \in 2..Len(runs[2]) : runs[2][i].order[1].order_type = "LIMIT"

\* C18: seed_book on a new book with n_initial_levels = n counts 2n orders, all
\* LIMIT, and leaves n bid levels at initial_price - i * tick and n ask levels
\* at initial_price + i * tick, i = 1..n, each of a volume in initial_vol_min ..
\* initial_vol_max, so that best_bid and best_ask are one tick from
\* initial_price and mid_price is initial_price.
SeedBookLevels ==
    prev.op = "seed_book" =>
        LET n == cfg.n_initial_levels
            vols == {VolUnit * v : v \in initial_vol_min..initial_vol_max}
        IN  /\ Stats.total_orders = 2 * n
            /\ Stats.limit_orders = 2 * n
            /\ Stats.market_orders = 0
            /\ Stats.cancel_orders = 0
            /\ DOMAIN _bids = {initial_price - i * tick_size : i \in 1..n}
            /\ DOMAIN _asks = {initial_price + i * tick_size : i \in 1..n}
            /\ Cardinality(DOMAIN _bids) = n
            /\ Cardinality(DOMAIN _asks) = n
            /\ \A p \in DOMAIN _bids : _bids[p] \in vols
            /\ \A p \in DOMAIN _asks : _asks[p] \in vols
            /\ best_bid = Some(initial_price - tick_size)
            /\ best_ask = Some(initial_price + tick_size)
            /\ mid_price = Some(initial_price)

\* MaxLevels levels were seeded on each side, with the smallest and the largest
\* volume among the bids
SeedBookLevelsWitness ==
    /\ prev.op = "seed_book"
    /\ prev.stats.total_orders = 0
    /\ cfg.n_initial_levels = MaxLevels
    /\ Cardinality(DOMAIN _bids) = MaxLevels
    /\ \E p, q \in DOMAIN _bids :
          /\ _bids[p] = VolUnit * initial_vol_min
          /\ _bids[q] = VolUnit * initial_vol_max

\* the prices _random_limit can give a LIMIT order of this side around mid
LimitPrices(side, mid) ==
    {IF side = "BID" THEN mid - k * tick_size ELSE mid + k * tick_size :
        k \in 1..cfg.limit_spread_ticks}

\* C19: every pull from stream() returns one order and raises nothing; when
\* the cancel branch is taken on a book with no level on either side the order
\* is a LIMIT order priced from initial_price, and a CANCEL order otherwise.
CancelFallback ==
    pulled # None =>
        /\ ~pulled[1].raised
        /\ pending # None
        /\ pending[1].order_type \in OrderTypes
        /\ pending[1].side \in Sides
        /\ pulled[1].branch = "_random_cancel" =>
              IF _bids = EmptyDict /\ _asks = EmptyDict
              THEN /\ pending[1].order_type = "LIMIT"
                   /\ pending[1].price \in LimitPrices(pending[1].side, initial_price)
              ELSE pending[1].order_type = "CANCEL"

\* the cancel branch was taken on an empty book
CancelFallbackWitness ==
    /\ pulled # None
    /\ pulled[1].branch = "_random_cancel"
    /\ _bids = EmptyDict
    /\ _asks = EmptyDict
    /\ pending # None
    /\ pending[1].order_type = "LIMIT"

\* C20: for the value r drawn, the limit branch is taken iff r < prob_limit,
\* the market branch iff prob_limit <= r < prob_limit + prob_market and the
\* cancel branch for every other r, whatever prob_cancel is; the order pulled is
\* of the type of the branch, but for the cancel branch on an empty book.
KindSelection ==
    pulled # None =>
        LET r == pulled[1].r * 100
            branch == pulled[1].branch
        IN  /\ branch = "_random_limit" <=> r < prob_limit * RawRange
            /\ branch = "_random_market" <=>
                  /\ prob_limit * RawRange <= r
                  /\ r < (prob_limit + prob_market) * RawRange
            /\ branch = "_random_cancel" <=> r >= (prob_limit + prob_market) * RawRange
            /\ branch = "_random_limit" => pending[1].order_type = "LIMIT"
            /\ branch = "_random_market" => pending[1].order_type = "MARKET"
            /\ (branch = "_random_cancel" /\ all_levels # <<>>) =>
                  pending[1].order_type = "CANCEL"

\* r is at or above the sum of the three probabilities, which is below 1, and
\* a CANCEL order was pulled
KindSelectionWitness ==
    /\ pulled # None
    /\ prob_limit + prob_market + prob_cancel < 100
    /\ pulled[1].r * 100 >= (prob_limit + prob_market + prob_cancel) * RawRange
    /\ pending # None
    /\ pending[1].order_type = "CANCEL"

\* the fractions rng.uniform(cancel_frac_min, cancel_frac_max) can return
CancelFractions == (cancel_frac_min * RawRange)..(cancel_frac_max * RawRange)

\* C21 as stated: a CANCEL order pulled from stream() names an occupied level
\* of the book it was generated from, its volume is that level's volume times
\* a fraction in [cancel_frac_min, cancel_frac_max], rounded, and is positive
\* and at most the level's volume; processed right away, it reduces the level
\* or removes it and is never a no-op.
CancelHitsLevel ==
    /\ (pending # None /\ pending[1].order_type = "CANCEL") =>
          LET book == IF pending[1].side = "BID" THEN _bids ELSE _asks
              price == pending[1].price
          IN  /\ price \in DOMAIN book
              /\ \E frac \in CancelFractions :
                    pending[1].volume = CancelVolume(book[price], frac)
              /\ pending[1].volume > 0
              /\ pending[1].volume <= book[price]
    /\ (generator # None /\ Acted("CANCEL")) =>
          /\ LastOrder.price \in DOMAIN PrevOwn
          /\ \/ LastOrder.price \notin DOMAIN Own
             \/ Own[LastOrder.price] < PrevOwn[LastOrder.price]

FromPresentBook(order) ==
    CASE order.order_type = "LIMIT" ->
            /\ order.price \in LimitPrices(order.side, Reference)
            /\ order.volume \in {VolUnit * v : v \in cfg.limit_vol_min..cfg.limit_vol_max}
      [] order.order_type = "MARKET" ->
            order.volume \in {VolUnit * v : v \in cfg.market_vol_min..cfg.market_vol_max}
      [] order.order_type = "CANCEL" ->
            LET book == IF order.side = "BID" THEN _bids ELSE _asks
            IN  /\ order.price \in DOMAIN book
                /\ \E frac \in CancelFractions :
                      order.volume = CancelVolume(book[order.price], frac)

\* C23: stream() generates one order per request and none ahead of it: the
\* order the driver holds was generated from the present book, which every
\* process_order before the pull has changed; the driver has pulled one order
\* per order it processed and one more, and while it wants another order the
\* stream has one to give and raises nothing.
StreamIsLazy ==
    /\ pending # None =>
          /\ pulled # None
          /\ ~pulled[1].raised
          /\ FromPresentBook(pending[1])
          /\ Stats.total_orders \in {tick, tick + 2 * cfg.n_initial_levels}
    /\ (generator # None /\ pending = None /\ tick < MaxPulls) =>
          \E d \in Draws(generator[1].rng, 4), g \in Draws(random, 1) :
              _next_order(d, g[1]).order # None

\* the order pulled cancels from a level that the order processed before the
\* pull has created
StreamIsLazyWitness ==
    /\ pending # None
    /\ pending[1].order_type = "CANCEL"
    /\ Acted("LIMIT")
    /\ pending[1].side = LastOrder.side
    /\ pending[1].price = LastOrder.price
    /\ LastOrder.price \notin DOMAIN PrevOwn
    /\ tick = 1

\* the book the last process_order was applied to was crossed
PrevCrossed ==
    /\ prev.bids # EmptyDict
    /\ prev.asks # EmptyDict
    /\ max(DOMAIN prev.bids) >= min(DOMAIN prev.asks)

Counters ==
    {"total_orders", "limit_orders", "market_orders", "cancel_orders",
     "total_volume_filled"}

\* no level of the book holds a negative volume
NoNegative(book) == \A p \in DOMAIN book : book[p] >= 0

PositiveOrdersPositiveLevels ==
    /\ AllPositive(_bids)
    /\ AllPositive(_asks)

\* after LIMIT and CANCEL orders, a MARKET order took the whole of the best
\* level and a part of the next one
PositiveOrdersPositiveLevelsWitness ==
    /\ Acted("MARKET")
    /\ Stats.limit_orders > 0
    /\ Stats.cancel_orders > 0
    /\ \E p, q \in DOMAIN PrevOpp :
          /\ p # q
          /\ p \notin DOMAIN Opp
          /\ q \in DOMAIN Opp
          /\ Opp[q] < PrevOpp[q]

\* the statistics fields of the book
StatsFields ==
    Counters \cup {"last_order"}

\* C28: a pull from stream(), whichever of the limit, market, cancel and
\* cancel-fallback branches generates the order, leaves bids, asks and every
\* statistics field as they were, and a step that changes one of them is a
\* process_order, seed_book or reset call.
GeneratingLeavesBook ==
    [][/\ (pulled = None /\ pulled' # None) =>
              /\ _bids' = _bids
              /\ _asks' = _asks
              /\ \A f \in StatsFields : Stats'[f] = Stats[f]
       /\ (_bids' # _bids \/ _asks' # _asks \/ Stats' # Stats) =>
              \/ pending # None /\ prev' = BeforeOrder(pending[1])
              \/ prev' = Before("seed_book")
              \/ prev' = Before("reset")]_vars

\* a CANCEL order was generated from the snapshot of a book that an earlier
\* generated order had changed, and that book is still as the order left it
GeneratingLeavesBookWitness ==
    /\ pending # None
    /\ pending[1].order_type = "CANCEL"
    /\ pulled[1].branch = "_random_cancel"
    /\ prev.op = "process_order"
    /\ (_bids # prev.bids \/ _asks # prev.asks)
    /\ Stats.total_orders = prev.stats.total_orders + 1

\* the volume resting on both sides of the book
Resting == Total(_bids) + Total(_asks)

OrdersCounted ==
    /\ Stats.total_orders
          = Stats.limit_orders + Stats.market_orders + Stats.cancel_orders
    /\ Stats.total_orders = ledger.calls

\* seed_book and then a MARKET and a CANCEL order were counted
OrdersCountedWitness ==
    /\ generator # None
    /\ Acted("CANCEL")
    /\ Stats.limit_orders = 2 * cfg.n_initial_levels
    /\ Stats.market_orders = 1
    /\ Stats.cancel_orders = 1
    /\ ledger.calls = 2 * cfg.n_initial_levels + 2
    /\ ledger.limit_volume >= 2 * VolUnit

\* the book quoted after the last order of a run
Final(run) == run[Len(run)].book

CancelsLastLimit ==
    /\ Acted("LIMIT")
    /\ LastOrder.volume > 0
    /\ prev'.op = "process_order"
    /\ prev'.order = [LastOrder EXCEPT !.order_type = "CANCEL"]

\* after the step both sides are what they were before the LIMIT order, and
\* of the statistics only the order counters and last_order differ
BackBeforeLimit ==
    /\ _bids' = prev.bids
    /\ _asks' = prev.asks
    /\ Stats'.total_volume_filled = prev.stats.total_volume_filled
    /\ Stats'.market_orders = prev.stats.market_orders

============================================================================
